---- MODULE Spec2Model ----
(***************************************************************************)
(* Model of backend/server.js: the seven route handlers of the inventory   *)
(* API over one MySQL table.  Every handler is an async function; it is    *)
(* modelled as a process whose steps are the code between two awaits       *)
(* (getConnection, conn.query, conn.end), so that handlers of concurrent   *)
(* requests interleave exactly where the event loop lets them.             *)
(***************************************************************************)
EXTENDS Integers, Sequences, FiniteSets, TLC

VARIABLES
  table,    \* the inventory table: id -> row
  nextId,   \* the table's AUTO_INCREMENT counter
  req,      \* the requests: number -> the handler's state
  log,      \* console.error output, in order
  clock     \* number of statements the store has executed

vars == <<table, nextId, req, log, clock>>

-----------------------------------------------------------------------------
(* Bounds *)

\* number of requests the server receives
MaxReq == 2

Reqs == 1..MaxReq

-----------------------------------------------------------------------------
(* JavaScript values.  Each kind has its own field name, so that values of  *)
(* different kinds are different records.                                   *)

Num(n) == [num |-> n]
Str(s) == [str |-> s]
Null == [null |-> TRUE]
Undefined == [undef |-> TRUE]

IsNum(v) == "num" \in DOMAIN v
IsStr(v) == "str" \in DOMAIN v

\* v == null
Nullish(v) == v = Null \/ v = Undefined

\* !v
Falsy(v) == Nullish(v) \/ v = Num(0) \/ v = Str("")

\* a || b
OrElse(a, b) == IF Falsy(a) THEN b ELSE a

-----------------------------------------------------------------------------
(* Routes and request inputs *)

GET_LIST == "GET /inventory"
GET_ID == "GET /inventory/:id"
POST == "POST /inventory"
PUT == "PUT /inventory/:id"
DELETE == "DELETE /inventory/:id"
CSV == "GET /export/csv"
PDF == "GET /export/pdf"

Routes == {GET_LIST, GET_ID, POST, PUT, DELETE, CSV, PDF}
JsonRoutes == {GET_LIST, GET_ID, POST, PUT, DELETE}
BodyRoutes == {POST, PUT}
IdRoutes == {GET_ID, PUT, DELETE}

\* req.body after bodyParser.json(): a field the JSON leaves out is undefined
Body(n, q, p, c, s) ==
  [name |-> n, quantity |-> q, price |-> p, category |-> c, supplier |-> s]

EmptyBody == Body(Undefined, Undefined, Undefined, Undefined, Undefined)

Bodies ==
  { Body(Str("Widget"), Num(5), Undefined, Undefined, Undefined),
    Body(Str("Bolt"), Num(0), Num(3), Str("hw"), Null),
    Body(Undefined, Num(5), Undefined, Undefined, Undefined),
    Body(Str(""), Num(1), Undefined, Str("hw"), Undefined),
    Body(Str("Nut"), Undefined, Num(3), Undefined, Undefined),
    Body(Str("Nut"), Null, Undefined, Undefined, Undefined) }

\* req.params.id of the requests
IdParams == {1, 2}

\* what the driver and the formatting libraries throw
ConnErrors == {"ECONNREFUSED"}
QueryErrors == {"ER_LOCK_DEADLOCK"}
FormatErrors == {"ERR_INVALID_ARG_TYPE"}
NoErr == "none"

-----------------------------------------------------------------------------
(* The store *)

Row(i, n, q, p, c, s) ==
  [id |-> i, name |-> n, quantity |-> q, price |-> p, category |-> c,
   supplier |-> s]

EmptyTable == <<>>

\* a table that was filled before the server started; its columns are
\* nullable, and row 2 was deleted
SeedTable ==
  (1 :> Row(1, Str("Bolt"), Null, Str("n/a"), Null, Str("")))
  @@ (3 :> Row(3, Str("Axle"), Num(0), Str("12.50"), Str("hw"), Null))

\* the position of a name in the collation ORDER BY name uses (NULL first)
NameRank(v) ==
  IF ~IsStr(v) THEN 0
  ELSE CASE v.str = "" -> 1
         [] v.str = "Axle" -> 2
         [] v.str = "Bolt" -> 3
         [] v.str = "Nut" -> 4
         [] v.str = "Widget" -> 5
         [] OTHER -> 6

\* SelectAll without ORDER BY name
SelectAllUnordered(t) ==
  LET n == Cardinality(DOMAIN t)
      perms == { s \in [1..n -> DOMAIN t] :
                   \A i, j \in 1..n : i # j => s[i] # s[j] }
  IN  { [i \in 1..n |-> t[s[i]]] : s \in perms }

\* the listings of the rows ids of t in which the names ascend; rows of equal
\* name come in either order
RECURSIVE Listings(_, _)
Listings(t, ids) ==
  IF ids = {} THEN { <<>> }
  ELSE LET first == { i \in ids :
                        \A j \in ids :
                          NameRank(t[i].name) <= NameRank(t[j].name) }
       IN  UNION { { <<t[i]>> \o s : s \in Listings(t, ids \ {i}) } :
                   i \in first }

\* SELECT * FROM inventory ORDER BY name
SelectAll(t) == Listings(t, DOMAIN t)

\* SELECT * FROM inventory WHERE id = ?
SelectById(t, id) == IF id \in DOMAIN t THEN <<t[id]>> ELSE <<>>

\* Params without the || defaults
ParamsNoDefault(body) ==
  [name |-> body.name, quantity |-> body.quantity, price |-> body.price,
   category |-> body.category, supplier |-> body.supplier]

\* the bound parameters of INSERT and UPDATE: [name, quantity, price || 0,
\* category || '', supplier || '']
Params(body) ==
  [name |-> body.name, quantity |-> body.quantity,
   price |-> OrElse(body.price, Num(0)),
   category |-> OrElse(body.category, Str("")),
   supplier |-> OrElse(body.supplier, Str(""))]

\* INSERT INTO inventory (name, quantity, price, category, supplier) VALUES ...
Insert(t, nid, p) ==
  t @@ (nid :> Row(nid, p.name, p.quantity, p.price, p.category, p.supplier))

\* Update that keeps the stored price, category and supplier where the
\* payload leaves them out (COALESCE)
UpdateKeep(t, id, p) ==
  IF id \in DOMAIN t
  THEN [t EXCEPT ![id] =
          Row(id, p.name, p.quantity,
              IF p.price = Num(0) THEN t[id].price ELSE p.price,
              IF p.category = Str("") THEN t[id].category ELSE p.category,
              IF p.supplier = Str("") THEN t[id].supplier ELSE p.supplier)]
  ELSE t

\* UPDATE inventory SET name = ?, quantity = ?, price = ?, category = ?,
\* supplier = ? WHERE id = ?
Update(t, id, p) ==
  IF id \in DOMAIN t
  THEN [t EXCEPT ![id] =
          Row(id, p.name, p.quantity, p.price, p.category, p.supplier)]
  ELSE t

\* Delete as a soft delete: the row stays
DeleteSoft(t, id) == t

\* DELETE FROM inventory WHERE id = ?
Delete(t, id) == [i \in DOMAIN t \ {id} |-> t[i]]

\* AffectedRows as the OK packet of a statement without a WHERE match check
AffectedRowsAny(t, id) == 1

\* the number of rows WHERE id = ? matches (the driver connects with
\* FOUND_ROWS, so an UPDATE counts the rows it matches)
AffectedRows(t, id) == IF id \in DOMAIN t THEN 1 ELSE 0

NoResult == [none |-> TRUE]

\* what one statement does to the store and hands back to the handler
Outcome(t, nid, rows, result) ==
  [table |-> t, nextId |-> nid, rows |-> rows, result |-> result]

Exec(route, id, body, t, nid) ==
  CASE route \in {GET_LIST, CSV, PDF} ->
         { Outcome(t, nid, rows, NoResult) : rows \in SelectAll(t) }
    [] route = GET_ID ->
         { Outcome(t, nid, SelectById(t, id), NoResult) }
    [] route = POST ->
         { Outcome(Insert(t, nid, Params(body)), nid + 1, <<>>,
                   [affectedRows |-> 1, insertId |-> nid]) }
    [] route = PUT ->
         { Outcome(Update(t, id, Params(body)), nid, <<>>,
                   [affectedRows |-> AffectedRows(t, id), insertId |-> 0]) }
    [] route = DELETE ->
         { Outcome(Delete(t, id), nid, <<>>,
                   [affectedRows |-> AffectedRows(t, id), insertId |-> 0]) }

-----------------------------------------------------------------------------
(* Responses *)

NoBody == [none |-> TRUE]

\* a handler that has not been entered
Idle ==
  [route |-> "none", id |-> 0, body |-> EmptyBody, pc |-> "idle",
   conn |-> "none", rows |-> <<>>, result |-> NoResult,
   status |-> 200, sent |-> 0, resBody |-> NoBody, ctype |-> "",
   disposition |-> "", piped |-> FALSE, doc |-> <<>>,
   err |-> NoErr, escaped |-> NoErr,
   stmts |-> 0, stmtAt |-> 0, pre |-> <<>>, post |-> <<>>]

\* res.status(status).json(body)
Json(q, status, body) ==
  [q EXCEPT !.status = status, !.resBody = body, !.sent = @ + 1,
            !.ctype = "application/json", !.pc = "done"]

\* res.status(status).send(text): the Content-Type stays when it is set
Send(q, status, body) ==
  [q EXCEPT !.status = status, !.resBody = body, !.sent = @ + 1,
            !.ctype = IF @ = "" THEN "text/html" ELSE @]

\* Invalid with !quantity in place of quantity == null
InvalidFalsyQuantity(body) == Falsy(body.name) \/ Falsy(body.quantity)

\* if (!name || quantity == null)
Invalid(body) == Falsy(body.name) \/ Nullish(body.quantity)

\* FailureBody that hands the error to the client
FailureBodyLeak(route, e) == [error |-> e]

\* the body of a 500: the catch blocks never read err for it
FailureBody(route, e) ==
  CASE route \in JsonRoutes -> [error |-> "Database error"]
    [] route = CSV -> [text |-> "Failed to export CSV"]
    [] route = PDF -> [text |-> "Failed to export PDF"]

\* console.error(chalk.red('<route> error:'), err)
LogLine(route, e) == [route |-> route, err |-> e]

\* catch (err) { console.error(...); res.status(500)... }
Catch(q, e) ==
  LET f == [q EXCEPT !.err = e]
  IN  IF q.route \in JsonRoutes
      THEN Json(f, 500, FailureBody(q.route, e))
      ELSE Send(f, 500, FailureBody(q.route, e))

-----------------------------------------------------------------------------
(* The export formatters *)

\* const fields = ['id', 'name', 'quantity', 'price', 'category', 'supplier']
fields == <<"id", "name", "quantity", "price", "category", "supplier">>

\* one CSV cell: a string is quoted, a number is bare, null is empty
Cell(v) ==
  CASE IsStr(v) -> [quoted |-> v.str]
    [] IsNum(v) -> [bare |-> v.num]
    [] OTHER -> [empty |-> TRUE]

CsvLine(item) ==
  << [bare |-> item.id], Cell(item.name), Cell(item.quantity),
     Cell(item.price), Cell(item.category), Cell(item.supplier) >>

\* new Parser({ fields }).parse(rows): the header line, then a line per row
Parse(rows) ==
  << [i \in 1..Len(fields) |-> [label |-> fields[i]]] >>
  \o [i \in 1..Len(rows) |-> CsvLine(rows[i])]

tableTop == 100
itemX == 50
qtyX == 200
priceX == 260
categoryX == 330
supplierX == 420
\* y = tableTop + 20; y += 20
rowStep == 20

\* doc.text(text, x, y)
Text(text, x, y) == [text |-> text, x |-> x, y |-> y]

\* the decimal string of an integer
toString(n) == [digits |-> n]

\* item.quantity?.toString() || '0'
QtyText(v) ==
  CASE Nullish(v) -> toString(0)
    [] IsNum(v) -> toString(v.num)
    [] OTHER -> IF v = Str("") THEN toString(0) ELSE v

NaN == [nan |-> TRUE]

\* parseFloat, in hundredths
ParseFloat(v) ==
  CASE IsNum(v) -> [hundredths |-> 100 * v.num]
    [] v = Str("12.50") -> [hundredths |-> 1250]
    [] v = Str("0.00") -> [hundredths |-> 0]
    [] OTHER -> NaN

\* (x).toFixed(2)
ToFixed2(x) == [whole |-> x.hundredths \div 100, frac |-> x.hundredths % 100]

\* the currency glyph + (parseFloat(item.price) || 0).toFixed(2)
PriceText(v) ==
  LET x == ParseFloat(v)
      n == IF x = NaN \/ x = [hundredths |-> 0] THEN [hundredths |-> 0] ELSE x
  IN  [glyph |-> "rupee", amount |-> ToFixed2(n)]

\* one pass of rows.forEach(item => { ... })
RowOps(item, y) ==
  << Text(item.name, itemX, y),
     Text(QtyText(item.quantity), qtyX, y),
     Text(PriceText(item.price), priceX, y),
     Text(OrElse(item.category, Str("-")), categoryX, y),
     Text(OrElse(item.supplier, Str("-")), supplierX, y) >>

\* RenderRows without y += 20
RECURSIVE RenderRowsNoAdvance(_, _)
RenderRowsNoAdvance(rows, y) ==
  IF rows = <<>> THEN <<>>
  ELSE RowOps(Head(rows), y) \o RenderRowsNoAdvance(Tail(rows), y)

RECURSIVE RenderRows(_, _)
RenderRows(rows, y) ==
  IF rows = <<>> THEN <<>>
  ELSE RowOps(Head(rows), y) \o RenderRows(Tail(rows), y + rowStep)

\* the title and the table header
HeaderOps ==
  << [text |-> Str("Inventory Report"), align |-> "center"],
     Text(Str("Name"), itemX, tableTop),
     Text(Str("Qty"), qtyX, tableTop),
     Text(Str("Price"), priceX, tableTop),
     Text(Str("Category"), categoryX, tableTop),
     Text(Str("Supplier"), supplierX, tableTop) >>

\* what the document holds once the first k rows are drawn
Render(rows, k) ==
  HeaderOps \o RenderRows(SubSeq(rows, 1, k), tableTop + rowStep)

-----------------------------------------------------------------------------
(* The handlers *)

Inputs ==
  { [route |-> r, id |-> 0, body |-> EmptyBody] : r \in {GET_LIST, CSV, PDF} }
  \cup { [route |-> r, id |-> i, body |-> EmptyBody] :
           r \in {GET_ID, DELETE}, i \in IdParams }
  \cup { [route |-> POST, id |-> 0, body |-> b] : b \in Bodies }
  \cup { [route |-> PUT, id |-> i, body |-> b] : i \in IdParams, b \in Bodies }

\* A request arrives and its handler runs to its first await: the handlers
\* of POST and PUT validate the body first and answer 400 without a
\* connection; every other path calls getConnection().
Receive(r) ==
  /\ req[r].pc = "idle"
  /\ r > 1 => req[r - 1].pc # "idle"
  /\ \E in \in Inputs :
       LET q == [req[r] EXCEPT !.route = in.route, !.id = in.id,
                               !.body = in.body, !.pre = table,
                               !.post = table]
       IN  req' = [req EXCEPT ![r] =
                     IF in.route \in BodyRoutes /\ Invalid(in.body)
                     THEN Json(q, 400,
                               [error |-> "Name and quantity are required"])
                     ELSE [q EXCEPT !.pc = "connecting"]]
  /\ UNCHANGED <<table, nextId, log, clock>>

\* mysql.createConnection(dbConfig) resolves; the handler calls conn.query
ConnectOk(r) ==
  /\ req[r].pc = "connecting"
  /\ req' = [req EXCEPT ![r].conn = "open", ![r].pc = "querying"]
  /\ UNCHANGED <<table, nextId, log, clock>>

\* mysql.createConnection(dbConfig) rejects: the catch block answers 500
ConnectFail(r) ==
  /\ req[r].pc = "connecting"
  /\ \E e \in ConnErrors :
       /\ req' = [req EXCEPT ![r] = [Catch(req[r], e) EXCEPT !.pc = "done"]]
       /\ log' = Append(log, LogLine(req[r].route, e))
  /\ UNCHANGED <<table, nextId, clock>>

\* conn.query resolves: the store has run the one statement; the handler
\* calls conn.end()
QueryOk(r) ==
  /\ req[r].pc = "querying"
  /\ \E o \in Exec(req[r].route, req[r].id, req[r].body, table, nextId) :
       /\ table' = o.table
       /\ nextId' = o.nextId
       /\ req' = [req EXCEPT ![r].rows = o.rows, ![r].result = o.result,
                             ![r].stmts = @ + 1, ![r].stmtAt = clock + 1,
                             ![r].pre = table, ![r].post = o.table,
                             ![r].pc = "ending"]
  /\ clock' = clock + 1
  /\ UNCHANGED log

\* conn.query rejects: the catch block answers 500; conn.end() is skipped
QueryFail(r) ==
  /\ req[r].pc = "querying"
  /\ \E e \in QueryErrors :
       /\ req' = [req EXCEPT ![r] = [Catch(req[r], e) EXCEPT !.pc = "done"]]
       /\ log' = Append(log, LogLine(req[r].route, e))
  /\ UNCHANGED <<table, nextId, clock>>

\* what a JSON handler answers once the connection is closed
Reply(q) ==
  CASE q.route = GET_LIST -> Json(q, 200, [items |-> q.rows])
    [] q.route = GET_ID ->
         IF Len(q.rows) = 0
         THEN Json(q, 404, [error |-> "Item not found"])
         ELSE Json(q, 200, [item |-> q.rows[1]])
    [] q.route = POST -> Json(q, 200, [message |-> "Item added"])
    [] q.route = PUT ->
         IF q.result.affectedRows = 0
         THEN Json(q, 404, [error |-> "Item not found"])
         ELSE Json(q, 200, [message |-> "Item updated"])
    [] q.route = DELETE ->
         IF q.result.affectedRows = 0
         THEN Json(q, 404, [error |-> "Item not found"])
         ELSE Json(q, 200, [message |-> "Item deleted"])

\* conn.end() resolves in a JSON handler, which answers
Respond(r) ==
  /\ req[r].pc = "ending"
  /\ req[r].route \in JsonRoutes
  /\ req' = [req EXCEPT ![r] = Reply([req[r] EXCEPT !.conn = "ended"])]
  /\ UNCHANGED <<table, nextId, log, clock>>

\* conn.end() resolves in the CSV handler; the rows are serialized and sent
ExportCsv(r) ==
  /\ req[r].pc = "ending"
  /\ req[r].route = CSV
  /\ req' = [req EXCEPT ![r] =
               [Send([req[r] EXCEPT !.conn = "ended", !.ctype = "text/csv",
                                    !.disposition = "inventory.csv"],
                     200, [csv |-> Parse(req[r].rows)])
                EXCEPT !.pc = "done"]]
  /\ UNCHANGED <<table, nextId, log, clock>>

\* the serializer throws before any header is set
ExportCsvFail(r) ==
  /\ req[r].pc = "ending"
  /\ req[r].route = CSV
  /\ \E e \in FormatErrors :
       /\ req' = [req EXCEPT ![r] =
                    [Catch([req[r] EXCEPT !.conn = "ended"], e)
                     EXCEPT !.pc = "done"]]
       /\ log' = Append(log, LogLine(CSV, e))
  /\ UNCHANGED <<table, nextId, clock>>

\* conn.end() resolves in the PDF handler: the headers are set, the document
\* is piped to the response, drawn and ended; its bytes flow later
ExportPdf(r) ==
  /\ req[r].pc = "ending"
  /\ req[r].route = PDF
  /\ req' = [req EXCEPT ![r].conn = "ended",
                        ![r].ctype = "application/pdf",
                        ![r].disposition = "inventory.pdf",
                        ![r].piped = TRUE,
                        ![r].doc = Render(req[r].rows, Len(req[r].rows)),
                        ![r].pc = "streaming"]
  /\ UNCHANGED <<table, nextId, log, clock>>

\* new PDFDocument throws: nothing is set yet, the catch block answers 500
ExportPdfFailEarly(r) ==
  /\ req[r].pc = "ending"
  /\ req[r].route = PDF
  /\ \E e \in FormatErrors :
       /\ req' = [req EXCEPT ![r] =
                    [Catch([req[r] EXCEPT !.conn = "ended"], e)
                     EXCEPT !.pc = "done"]]
       /\ log' = Append(log, LogLine(PDF, e))
  /\ UNCHANGED <<table, nextId, clock>>

\* drawing throws after doc.pipe(res), before the first row or after the last
\* one: the catch block sends the 500 on the response the document stays
\* piped to
ExportPdfFailPiped(r) ==
  /\ req[r].pc = "ending"
  /\ req[r].route = PDF
  /\ \E e \in FormatErrors, k \in {0, Len(req[r].rows)} :
       /\ req' = [req EXCEPT ![r] =
                    [Catch([req[r] EXCEPT !.conn = "ended",
                                          !.ctype = "application/pdf",
                                          !.disposition = "inventory.pdf",
                                          !.piped = TRUE,
                                          !.doc = Render(req[r].rows, k)], e)
                     EXCEPT !.pc = "streaming"]]
       /\ log' = Append(log, LogLine(PDF, e))
  /\ UNCHANGED <<table, nextId, clock>>

\* the piped document flows: into the open response, which it ends with the
\* PDF; or into the response the catch block has ended, where the write
\* raises an error outside the handler's try
Flow(r) ==
  /\ req[r].pc = "streaming"
  /\ req' = [req EXCEPT ![r] =
               IF req[r].sent = 0
               THEN [req[r] EXCEPT !.sent = 1, !.resBody = [pdf |-> req[r].doc],
                                   !.pc = "done"]
               ELSE [req[r] EXCEPT !.escaped = "ERR_STREAM_WRITE_AFTER_END",
                                   !.pc = "done"]]
  /\ UNCHANGED <<table, nextId, log, clock>>

-----------------------------------------------------------------------------

Init ==
  /\ table \in {EmptyTable, SeedTable}
  /\ nextId = IF table = EmptyTable THEN 1 ELSE 4
  /\ req = [r \in Reqs |-> Idle]
  /\ log = <<>>
  /\ clock = 0

Next ==
  \E r \in Reqs :
    \/ Receive(r)
    \/ ConnectOk(r)
    \/ ConnectFail(r)
    \/ QueryOk(r)
    \/ QueryFail(r)
    \/ Respond(r)
    \/ ExportCsv(r)
    \/ ExportCsvFail(r)
    \/ ExportPdf(r)
    \/ ExportPdfFailEarly(r)
    \/ ExportPdfFailPiped(r)
    \/ Flow(r)

Spec == Init /\ [][Next]_vars

-----------------------------------------------------------------------------
(* Properties *)

Done(r) == req[r].pc = "done"

\* the handler has returned (the PDF handler returns before its bytes flow)
Returned(r) == req[r].pc \in {"done", "streaming"}

\* the statement of r ran
Ran(r) == req[r].stmts > 0

\* the payload has a non-empty name and a quantity that is present
ValidPayload(b) ==
  /\ b.name \notin {Undefined, Null, Str("")}
  /\ b.quantity \notin {Undefined, Null}

\* the payload's value, or d where the payload omits it
Given(v, d) == IF v \in {Undefined, Null} THEN d ELSE v

\* the record a payload describes, under id i
Stored(i, b) ==
  Row(i, b.name, b.quantity, Given(b.price, Num(0)),
      Given(b.category, Str("")), Given(b.supplier, Str("")))

NotFound(r) ==
  req[r].status = 404 /\ req[r].resBody = [error |-> "Item not found"]

\* C1: every connection a handler opened is released by the time the handler
\* has returned, on the success path and on every error path, the path where
\* the statement fails included.
C1_ConnectionReleased ==
  \A r \in Reqs : Returned(r) => req[r].conn # "open"

\* C2 as stated: for an id that is not in the store, GET, PUT and DELETE by
\* id each answer 404 "Item not found", never 500, and the table is left
\* unchanged (read for the requests whose connection and statement did not
\* fail).
C2_AbsentIdAlwaysNotFound ==
  \A r \in Reqs :
    ( /\ Done(r) /\ req[r].route \in IdRoutes /\ req[r].err = NoErr
      /\ req[r].id \notin DOMAIN req[r].pre )
      => NotFound(r) /\ req[r].post = req[r].pre

\* C2 as amended: for an id that is not in the store the table is left
\* unchanged; a PUT with an invalid body answers 400 before the store is
\* asked, a failure of the connection or the statement answers 500, and every
\* other GET, PUT and DELETE by id answers 404 "Item not found".
C2_AbsentIdNotFound ==
  \A r \in Reqs :
    (Done(r) /\ req[r].route \in IdRoutes /\ req[r].id \notin DOMAIN req[r].pre)
      => /\ req[r].post = req[r].pre
         /\ req[r].sent = 1
         /\ IF req[r].route = PUT /\ ~ValidPayload(req[r].body)
            THEN req[r].status = 400 /\ ~Ran(r)
            ELSE IF req[r].err # NoErr
            THEN req[r].status = 500 /\ ~Ran(r)
            ELSE NotFound(r) /\ Ran(r)

C2_Witness ==
  /\ \E r \in Reqs :
       /\ Done(r) /\ req[r].route = PUT /\ ValidPayload(req[r].body)
       /\ req[r].id \notin DOMAIN req[r].pre /\ Ran(r) /\ NotFound(r)
       /\ req[r].pre # <<>>
  /\ \E r \in Reqs :
       /\ Done(r) /\ req[r].route = DELETE
       /\ req[r].id \notin DOMAIN req[r].pre /\ Ran(r) /\ NotFound(r)

\* C3: a POST or PUT whose body has no non-empty name, or whose quantity is
\* null or undefined, is answered 400 "Name and quantity are required" with no
\* connection opened and no statement run; a body with a non-empty name and
\* quantity 0 is not rejected.
C3_Validation ==
  \A r \in Reqs :
    (req[r].pc # "idle" /\ req[r].route \in BodyRoutes) =>
      /\ ~ValidPayload(req[r].body) =>
           /\ Done(r) /\ req[r].sent = 1 /\ req[r].status = 400
           /\ req[r].resBody = [error |-> "Name and quantity are required"]
           /\ req[r].conn = "none" /\ ~Ran(r)
           /\ req[r].post = req[r].pre
      /\ (req[r].body.name \notin {Undefined, Null, Str("")}
            /\ req[r].body.quantity = Num(0)) =>
           /\ req[r].status # 400
           /\ req[r].pc = "connecting" \/ req[r].conn # "none"
                \/ req[r].err # NoErr

C3_Witness ==
  /\ \E r \in Reqs :
       /\ Done(r) /\ req[r].route = POST /\ req[r].status = 400
       /\ req[r].body.name = Undefined /\ req[r].body.quantity = Num(5)
  /\ \E r \in Reqs :
       /\ Done(r) /\ req[r].route = PUT /\ req[r].body.quantity = Num(0)
       /\ req[r].status = 200 /\ Ran(r)
       /\ req[r].post[req[r].id].quantity = Num(0)

\* C4 as stated: for every valid payload POST answers 200 and returns an id,
\* and the record under the returned id has the payload's name and quantity
\* and the payload's price, category and supplier or their defaults (read for
\* the requests whose connection and statement did not fail).
C4_CreateReturnsId ==
  \A r \in Reqs :
    ( /\ Done(r) /\ req[r].route = POST /\ ValidPayload(req[r].body)
      /\ req[r].err = NoErr ) =>
      /\ req[r].status = 200
      /\ "id" \in DOMAIN req[r].resBody
      /\ req[r].resBody.id \in DOMAIN req[r].post
      /\ req[r].post[req[r].resBody.id]
           = Stored(req[r].resBody.id, req[r].body)

\* no PUT or DELETE of id i ran after statement number a and before b
Untouched(i, a, b) ==
  \A w \in Reqs :
    ~ /\ req[w].route \in {PUT, DELETE} /\ req[w].id = i
      /\ req[w].stmtAt > a /\ req[w].stmtAt < b

\* C4 as amended: for every valid payload POST answers 200 {message: "Item
\* added"}, which carries no id, when the connection and the INSERT succeed,
\* and 500 with no row inserted when either fails; on success the store gives
\* the new row an id no row had, and a later get by that id, with no update or
\* delete of it in between, yields the payload's name and quantity and the
\* payload's price, category and supplier, or 0, "" and "" where the payload
\* omits them.
C4_CreateRoundTrip ==
  \A r \in Reqs :
    (Done(r) /\ req[r].route = POST /\ ValidPayload(req[r].body)) =>
      IF req[r].err # NoErr
      THEN req[r].status = 500 /\ req[r].post = req[r].pre
      ELSE LET n == req[r].result.insertId
           IN  /\ req[r].status = 200
               /\ req[r].resBody = [message |-> "Item added"]
               /\ n \notin DOMAIN req[r].pre
               /\ DOMAIN req[r].post = DOMAIN req[r].pre \cup {n}
               /\ req[r].post[n] = Stored(n, req[r].body)
               /\ \A g \in Reqs :
                    ( /\ Done(g) /\ req[g].route = GET_ID /\ req[g].id = n
                      /\ req[g].stmtAt > req[r].stmtAt
                      /\ Untouched(n, req[r].stmtAt, req[g].stmtAt) )
                    => /\ req[g].status = 200
                       /\ req[g].resBody = [item |-> Stored(n, req[r].body)]

C4_Witness ==
  \E r, g \in Reqs :
    /\ Done(r) /\ req[r].route = POST /\ req[r].status = 200
    /\ req[r].body.price = Undefined /\ req[r].body.name = Str("Widget")
    /\ Done(g) /\ req[g].route = GET_ID
    /\ req[g].id = req[r].result.insertId
    /\ req[g].stmtAt > req[r].stmtAt
    /\ req[g].status = 200
    /\ req[g].resBody.item.price = Num(0)
    /\ req[g].resBody.item.category = Str("")

\* C5: a PUT with a valid body on an id that is present answers 200 and
\* overwrites all five fields of the row with that id, the fields the payload
\* omits being reset to 0, "" and ""; the row's id, the set of ids and every
\* other row are unchanged.
C5_UpdateOverwrites ==
  \A r \in Reqs :
    (Done(r) /\ req[r].route = PUT /\ Ran(r)) =>
      /\ req[r].status = 200 <=> req[r].id \in DOMAIN req[r].pre
      /\ req[r].status = 200 =>
           /\ ValidPayload(req[r].body)
           /\ DOMAIN req[r].post = DOMAIN req[r].pre
           /\ req[r].post[req[r].id] = Stored(req[r].id, req[r].body)
           /\ \A j \in DOMAIN req[r].pre \ {req[r].id} :
                req[r].post[j] = req[r].pre[j]

C5_Witness ==
  \E r \in Reqs :
    /\ Done(r) /\ req[r].route = PUT /\ req[r].status = 200
    /\ req[r].body.price = Undefined
    /\ req[r].pre[req[r].id].price = Str("n/a")
    /\ req[r].post[req[r].id].price = Num(0)
    /\ req[r].pre[req[r].id].category = Null
    /\ req[r].post[req[r].id].category = Str("")
    /\ Cardinality(DOMAIN req[r].pre) = 2

\* C6: every request ends with exactly one response; a failure of the
\* connection, the statement or the formatting is answered 500 by the handler
\* and no failure escapes the handler, a failure of the PDF export after the
\* document is piped to the response included.
C6_OneResponseNoEscape ==
  \A r \in Reqs :
    Done(r) =>
      /\ req[r].sent = 1
      /\ req[r].escaped = NoErr
      /\ req[r].err # NoErr =>
           /\ req[r].status = 500
           /\ req[r].resBody =
                (CASE req[r].route \in JsonRoutes -> [error |-> "Database error"]
                   [] req[r].route = CSV -> [text |-> "Failed to export CSV"]
                   [] req[r].route = PDF -> [text |-> "Failed to export PDF"])

\* C7: two runs of the same request that fail have the same status and the
\* same body, whatever the errors were, and each error is in the server's log.
C7_FailureBodyIndependent ==
  \A a, b \in Reqs :
    ( /\ Done(a) /\ Done(b)
      /\ req[a].err # NoErr /\ req[b].err # NoErr
      /\ req[a].route = req[b].route /\ req[a].id = req[b].id
      /\ req[a].body = req[b].body )
    => /\ req[a].status = req[b].status
       /\ req[a].resBody = req[b].resBody
       /\ \E i \in 1..Len(log) : log[i] = [route |-> req[a].route, err |-> req[a].err]

C7_Witness ==
  \E a, b \in Reqs :
    /\ Done(a) /\ Done(b)
    /\ req[a].route = req[b].route /\ req[a].id = req[b].id
    /\ req[a].body = req[b].body
    /\ req[a].route = DELETE
    /\ req[a].err \in ConnErrors /\ req[b].err \in QueryErrors
    /\ req[a].status = 500 /\ req[b].status = 500
    /\ req[a].resBody = [error |-> "Database error"]
    /\ Len(log) = 2

\* the names of the lines of a CSV ascend
RECURSIVE Ascending(_)
Ascending(ranks) ==
  Len(ranks) < 2 \/ (ranks[1] <= ranks[2] /\ Ascending(Tail(ranks)))

\* C8: the CSV export runs one read of the whole table, changes no row, and
\* answers the header line id, name, quantity, price, category, supplier and
\* then one line per row, the names ascending; an empty table gives the header
\* line alone.
C8_CsvExport ==
  \A r \in Reqs :
    (Done(r) /\ req[r].route = CSV) =>
      /\ req[r].post = req[r].pre
      /\ req[r].stmts <= 1
      /\ req[r].err = NoErr =>
           LET csv == req[r].resBody.csv
               t == req[r].pre
               n == Cardinality(DOMAIN t)
           IN  /\ req[r].status = 200 /\ req[r].stmts = 1
               /\ Len(csv) = n + 1
               /\ csv[1] = << [label |-> "id"], [label |-> "name"],
                              [label |-> "quantity"], [label |-> "price"],
                              [label |-> "category"], [label |-> "supplier"] >>
               /\ { csv[i][1].bare : i \in 2..(n + 1) } = DOMAIN t
               /\ \A i \in 2..(n + 1) :
                    /\ Len(csv[i]) = 6
                    /\ csv[i][2] = [quoted |-> t[csv[i][1].bare].name.str]
               /\ Ascending([i \in 1..n |-> NameRank(t[csv[i + 1][1].bare].name)])
               /\ t = <<>> => Len(csv) = 1

C8_Witness ==
  \E r \in Reqs :
    /\ Done(r) /\ req[r].route = CSV /\ req[r].status = 200
    /\ Len(req[r].resBody.csv) = 4
    /\ req[r].resBody.csv[2][1] = [bare |-> 3]
    /\ req[r].resBody.csv[3][2] = [quoted |-> "Bolt"]
    /\ req[r].resBody.csv[4][2] = [quoted |-> "Widget"]

\* C9: the PDF export draws the header row at y = 100 and the i-th row of the
\* name-ordered list (from 0) at y = 120 + 20 * i, the five cells of a row at
\* x = 50, 200, 260, 330, 420; a missing quantity and quantity 0 draw "0", a
\* missing or empty category or supplier draws "-", an absent or non-numeric
\* price draws 0.00.
C9_PdfLayout ==
  \A r \in Reqs :
    (req[r].route = PDF /\ Returned(r) /\ req[r].err = NoErr) =>
      LET d == req[r].doc
          rows == req[r].rows
          X == <<50, 200, 260, 330, 420>>
      IN  /\ Len(d) = 6 + 5 * Len(rows)
          /\ \A c \in 1..5 : d[1 + c].x = X[c] /\ d[1 + c].y = 100
          /\ \A i \in 0..(Len(rows) - 1) :
               LET item == rows[i + 1]
                   cell == [c \in 1..5 |-> d[6 + 5 * i + c]]
               IN  /\ \A c \in 1..5 :
                         cell[c].x = X[c] /\ cell[c].y = 120 + 20 * i
                   /\ cell[1].text = item.name
                   /\ item.quantity \in {Null, Undefined, Num(0)} =>
                        cell[2].text = [digits |-> 0]
                   /\ (item.quantity \notin {Null, Undefined}
                         /\ "num" \in DOMAIN item.quantity) =>
                        cell[2].text = [digits |-> item.quantity.num]
                   /\ item.price \in {Null, Undefined, Str("n/a"), Str("")} =>
                        cell[3].text.amount = [whole |-> 0, frac |-> 0]
                   /\ item.price = Str("12.50") =>
                        cell[3].text.amount = [whole |-> 12, frac |-> 50]
                   /\ cell[4].text =
                        (IF item.category \in {Null, Undefined, Str("")}
                         THEN Str("-") ELSE item.category)
                   /\ cell[5].text =
                        (IF item.supplier \in {Null, Undefined, Str("")}
                         THEN Str("-") ELSE item.supplier)

C9_Witness ==
  \E r \in Reqs :
    /\ Done(r) /\ req[r].route = PDF /\ req[r].status = 200
    /\ req[r].resBody = [pdf |-> req[r].doc]
    /\ Len(req[r].rows) = 2
    /\ req[r].rows[2].quantity = Null
    /\ req[r].rows[2].price = Str("n/a")
    /\ req[r].rows[2].supplier = Str("")
    /\ req[r].rows[1].supplier = Null
    /\ req[r].doc[15].y = 140

\* C10: a valid PUT and a DELETE of the same existing id, each one statement,
\* with no other delete of that id: in every interleaving the DELETE answers
\* 200, the PUT answers 200 when its statement ran first and 404 when it ran
\* second, no answer is a 500, and the row is absent once both are done.
C10_PutDeleteRace ==
  \A p, d \in Reqs :
    ( /\ Done(p) /\ req[p].route = PUT /\ ValidPayload(req[p].body)
      /\ Done(d) /\ req[d].route = DELETE /\ req[d].id = req[p].id
      /\ Ran(p) /\ Ran(d)
      /\ req[p].id \in DOMAIN (IF req[p].stmtAt < req[d].stmtAt
                               THEN req[p].pre ELSE req[d].pre)
      /\ \A o \in Reqs \ {d} :
           ~(req[o].route = DELETE /\ req[o].id = req[d].id /\ Ran(o)) )
    => /\ req[d].status = 200
       /\ req[p].stmtAt < req[d].stmtAt => req[p].status = 200
       /\ req[p].stmtAt > req[d].stmtAt => req[p].status = 404
       /\ req[p].id \notin DOMAIN table

C10_Witness ==
  \E p, d \in Reqs :
    /\ Done(p) /\ req[p].route = PUT /\ Done(d) /\ req[d].route = DELETE
    /\ req[d].id = req[p].id
    /\ req[d].stmtAt < req[p].stmtAt
    /\ p < d
    /\ req[p].id \in DOMAIN req[d].pre
    /\ req[d].status = 200 /\ req[p].status = 404

====
